---- MODULE Spec2Model ----
(***************************************************************************)
(* Model of tc/try_catch.hpp: the runtime logging dispatcher (level filter *)
(* and pluggable sink held in two process-wide atomics) and the            *)
(* conditional TC_TRY / TC_CATCH / TC_THROW macro layer.                   *)
(***************************************************************************)
EXTENDS Integers, Sequences, FiniteSets, TLC

\* ------------------------------------------------------------------ bounds
\* log calls recorded in one run of the sequential harness
MaxCalls == 4

\* The caller threads of the logging API.
Threads == {"t1", "t2"}

\* ------------------------------------------------------------ log levels
\* enum class log_level : int { trace = 0, ..., off = 5 }
log_level == {"trace", "debug", "info", "warn", "error", "off"}

\* static_cast<int>(log_level)
static_cast_int(l) ==
    CASE l = "trace" -> 0
      [] l = "debug" -> 1
      [] l = "info"  -> 2
      [] l = "warn"  -> 3
      [] l = "error" -> 4
      [] l = "off"   -> 5

\* static_cast<log_level>(int), for the values an enumerator has
static_cast_log_level(i) == CHOOSE l \in log_level : static_cast_int(l) = i

\* The levels the TC_LOG_TRACE .. TC_LOG_ERROR macros pass to logf.
TC_LOG_LEVELS == {"trace", "debug", "info", "warn", "error"}

\* ------------------------------------------------------------------ sinks
\* log_sink_t values: the null pointer, the default sink, the test suite's
\* MemSink::sink, and a user sink whose body raises (the pointer type carries
\* no noexcept, so such a sink is a legal argument of set_log_sink in a build
\* with exceptions enabled).
NullSink == "nullptr"
default_stderr_sink == "default_stderr_sink"
MemSink == "MemSink::sink"
ThrowingSink == "throwing_sink"

SinkRaises(snk) == snk = ThrowingSink

VARIABLES
    TC_DEBUG,               \* build type: TRUE in a debug build
    TC_EXCEPTIONS_ENABLED,  \* build capability flag
    runtime_log_level,      \* std::atomic<int> lvl
    runtime_sink,           \* std::atomic<log_sink_t> sink
    pc,                     \* per thread: position inside logf / vlog_dispatch
    lvl,                    \* per thread: the lvl argument of the running logf
    s,                      \* per thread: the local s of vlog_dispatch
    entry,                  \* per thread: level and sink when the running logf was
                            \* entered, while no set call has been made since
    invoked,                \* per thread: the sinks the running logf has invoked
    ret,                    \* what the call that has just returned gave its caller
    last_set_level,         \* argument of the latest set_log_level call
    last_set_sink,          \* argument of the latest set_log_sink call
    harness,                \* "threads": concurrent callers; "sequence": one caller
                            \* whose calls and sink invocations are recorded;
                            \* "program": one thread running a TC_TRY program
    calls,                  \* sequence harness: levels logged since the last set call
    delivered,              \* sequence harness: sink invocations since the last set call
    prog,                   \* program harness: the statements of main
    stack,                  \* program harness: the blocks being executed, innermost last
    inflight,               \* program harness: the exception being unwound
    status,                 \* program harness: ready, running, done, aborted, terminated
    trace,                  \* program harness: the statements and handlers that ran
    nthrown,                \* program harness: exception objects created
    ok                      \* program harness: the local "ok" of each running
                            \* TC_GUARD lambda, innermost last

logvars == <<runtime_log_level, runtime_sink, pc, lvl, s, entry, invoked, ret,
             last_set_level, last_set_sink, harness, calls, delivered>>

build == <<TC_DEBUG, TC_EXCEPTIONS_ENABLED>>

tcvars == <<prog, stack, inflight, status, trace, nthrown, ok>>

vars == <<build, logvars, tcvars>>

\* The sinks a program of this build can install.
Sinks ==
    {NullSink, default_stderr_sink, MemSink}
        \cup (IF TC_EXCEPTIONS_ENABLED THEN {ThrowingSink} ELSE {})

NoEntry == [fixed |-> FALSE, level |-> -1, sink |-> "none"]

NoRet == [op |-> "none", val |-> "none", lvl |-> "none", entry |-> NoEntry,
          invoked |-> <<>>, result |-> "none"]

\* ------------------------------------------------- logging state, initial
\* a level that starts at info in every build
initial_level_info == static_cast_int("info")

\* runtime_log_level(): the lambda's value, debug in a debug build, info else
initial_level == IF TC_DEBUG THEN static_cast_int("debug") ELSE static_cast_int("info")

\* runtime_sink(): static std::atomic<log_sink_t> sink{&default_stderr_sink}
initial_sink == default_stderr_sink

InitLogging ==
    /\ runtime_log_level = initial_level
    /\ runtime_sink = initial_sink
    /\ pc = [t \in Threads |-> "idle"]
    /\ lvl = [t \in Threads |-> "none"]
    /\ s = [t \in Threads |-> "none"]
    /\ entry = [t \in Threads |-> NoEntry]
    /\ invoked = [t \in Threads |-> <<>>]
    /\ ret = NoRet
    /\ last_set_level = "none"
    /\ last_set_sink = "none"
    /\ calls = <<>>
    /\ delivered = <<>>

InitBuild ==
    /\ TC_DEBUG \in BOOLEAN
    /\ TC_EXCEPTIONS_ENABLED \in BOOLEAN

\* No TC_TRY program runs in the harnesses of the logging API alone.
NoExc == [type |-> "none", id |-> 0]

InitNoProgram ==
    /\ prog = <<>>
    /\ stack = <<>>
    /\ inflight = NoExc
    /\ status = "none"
    /\ trace = <<>>
    /\ nthrown = 0
    /\ ok = <<>>

Init == InitBuild /\ InitLogging /\ InitNoProgram /\ harness = "threads"

\* ------------------------------------------------------- set / get calls
\* A set call made while a log call is in flight: that call's level and sink
\* are no longer the ones it was entered with.
MarkInFlight == [t \in Threads |-> NoEntry]

\* set_log_level with "off" stored as the highest event level
level_stored_saturating(v) ==
    IF v = "off" THEN static_cast_int("error") ELSE static_cast_int(v)

\* the value set_log_level stores
level_stored(v) == static_cast_int(v)

\* get_log_level that returns the level the build starts with
level_loaded_initial == static_cast_log_level(initial_level)

\* the value get_log_level returns
level_loaded == static_cast_log_level(runtime_log_level)

\* set_log_sink that drops its argument
sink_stored_keeps_default(snk) == default_stderr_sink

\* the value set_log_sink stores
sink_stored(snk) == snk

\* the value get_log_sink returns
sink_loaded == runtime_sink

\* a set_log_level that also puts the default sink back
set_log_level_resets_sink(t, v) ==
    /\ pc[t] = "idle"
    /\ runtime_log_level' = level_stored(v)
    /\ runtime_sink' = default_stderr_sink
    /\ last_set_level' = v
    /\ entry' = MarkInFlight
    /\ ret' = NoRet
    /\ calls' = <<>>
    /\ delivered' = <<>>
    /\ UNCHANGED <<build, pc, lvl, s, invoked, last_set_sink, harness>>

\* set_log_level(lvl) / tc::log::set_level(v)
set_log_level(t, v) ==
    /\ pc[t] = "idle"
    /\ runtime_log_level' = level_stored(v)
    /\ last_set_level' = v
    /\ entry' = MarkInFlight
    /\ ret' = NoRet
    /\ calls' = <<>>
    /\ delivered' = <<>>
    /\ UNCHANGED <<build, runtime_sink, pc, lvl, s, invoked, last_set_sink, harness>>

\* get_log_level() / tc::log::get_level()
get_log_level(t) ==
    /\ pc[t] = "idle"
    /\ ret' = [NoRet EXCEPT !.op = "get_level", !.val = level_loaded,
                            !.result = "returned"]
    /\ UNCHANGED <<build, runtime_log_level, runtime_sink, pc, lvl, s, entry,
                   invoked, last_set_level, last_set_sink, harness, calls, delivered>>

\* set_log_sink(sink) / tc::log::set_sink(s)
set_log_sink(t, snk) ==
    /\ pc[t] = "idle"
    /\ runtime_sink' = sink_stored(snk)
    /\ last_set_sink' = snk
    /\ entry' = MarkInFlight
    /\ ret' = NoRet
    /\ calls' = <<>>
    /\ delivered' = <<>>
    /\ UNCHANGED <<build, runtime_log_level, pc, lvl, s, invoked, last_set_level, harness>>

\* get_log_sink() / tc::log::get_sink()
get_log_sink(t) ==
    /\ pc[t] = "idle"
    /\ ret' = [NoRet EXCEPT !.op = "get_sink", !.val = sink_loaded,
                            !.result = "returned"]
    /\ UNCHANGED <<build, runtime_log_level, runtime_sink, pc, lvl, s, entry,
                   invoked, last_set_level, last_set_sink, harness, calls, delivered>>

\* ------------------------------------------------------------ log calls
\* the level check with <= in place of <
below_level_inclusive(l, min) == static_cast_int(l) <= min

\* vlog_dispatch: if (static_cast<int>(lvl) < runtime_log_level().load()) return;
below_level(l, min) == static_cast_int(l) < min

\* vlog_dispatch without its null check
sink_is_set_always(snk) == TRUE

\* vlog_dispatch: if (s) s(...)
sink_is_set(snk) == snk # NullSink

\* TC_LOG_x(...) -> logf(level, ...): va_start, then enter vlog_dispatch
logf(t, l) ==
    /\ pc[t] = "idle"
    /\ harness = "sequence" => Len(calls) < MaxCalls
    /\ pc' = [pc EXCEPT ![t] = "check_level"]
    /\ lvl' = [lvl EXCEPT ![t] = l]
    /\ entry' = [entry EXCEPT ![t] = [fixed |-> TRUE, level |-> runtime_log_level,
                                      sink |-> runtime_sink]]
    /\ invoked' = [invoked EXCEPT ![t] = <<>>]
    /\ calls' = IF harness # "threads" THEN Append(calls, l) ELSE calls
    /\ ret' = NoRet
    /\ UNCHANGED <<build, runtime_log_level, runtime_sink, s, last_set_level,
                   last_set_sink, harness, delivered>>

\* vlog_dispatch, the level check: the atomic load of the level
check_level(t) ==
    /\ pc[t] = "check_level"
    /\ pc' = [pc EXCEPT ![t] =
                IF below_level(lvl[t], runtime_log_level)
                THEN "va_end" ELSE "load_sink"]
    /\ ret' = NoRet
    /\ UNCHANGED <<build, runtime_log_level, runtime_sink, lvl, s, entry, invoked,
                   last_set_level, last_set_sink, harness, calls, delivered>>

\* a log call whose sink read waits until no set call has been made since the
\* call was entered
load_sink_locked(t) ==
    /\ entry[t].fixed
    /\ pc[t] = "load_sink"
    /\ s' = [s EXCEPT ![t] = runtime_sink]
    /\ pc' = [pc EXCEPT ![t] =
                IF sink_is_set(runtime_sink) THEN "call_sink" ELSE "va_end"]
    /\ ret' = NoRet
    /\ UNCHANGED <<build, runtime_log_level, runtime_sink, lvl, entry, invoked,
                   last_set_level, last_set_sink, harness, calls, delivered>>

\* vlog_dispatch, auto* s = runtime_sink().load(): the atomic load of the sink
load_sink(t) ==
    /\ pc[t] = "load_sink"
    /\ s' = [s EXCEPT ![t] = runtime_sink]
    /\ pc' = [pc EXCEPT ![t] =
                IF sink_is_set(runtime_sink) THEN "call_sink" ELSE "va_end"]
    /\ ret' = NoRet
    /\ UNCHANGED <<build, runtime_log_level, runtime_sink, lvl, entry, invoked,
                   last_set_level, last_set_sink, harness, calls, delivered>>

\* a dispatcher that swallows what the sink raises
after_sink_swallows(snk) == "returned"

\* What the caller of logf sees when the sink it invoked ends: a sink that
\* raises unwinds through vlog_dispatch and logf, neither of which has a
\* handler; any other sink returns into vlog_dispatch.
after_sink(snk) == IF SinkRaises(snk) THEN "raised" ELSE "returned"

\* a dispatcher that invokes the sink twice
sink_calls_twice(snk) == <<snk, snk>>

\* the sink invocations one pass through "if (s) s(...)" makes
sink_calls(snk) == <<snk>>

\* what the caller of logf observes when the call ends
LogfEnds(t, how, inv) ==
    [op |-> "logf", val |-> "none", lvl |-> lvl[t], entry |-> entry[t],
     invoked |-> inv, result |-> how]

\* vlog_dispatch, s(lvl, file, line, func, fmt, ap): the sink runs
call_sink(t) ==
    /\ pc[t] = "call_sink"
    /\ delivered' = IF harness # "threads"
                    THEN delivered \o [i \in 1..Len(sink_calls(s[t])) |->
                                         [sink |-> sink_calls(s[t])[i], lvl |-> lvl[t]]]
                    ELSE delivered
    /\ IF after_sink(s[t]) = "raised"
       THEN /\ pc' = [pc EXCEPT ![t] = "idle"]
            /\ ret' = LogfEnds(t, "raised", invoked[t] \o sink_calls(s[t]))
            /\ lvl' = [lvl EXCEPT ![t] = "none"]
            /\ s' = [s EXCEPT ![t] = "none"]
            /\ entry' = [entry EXCEPT ![t] = NoEntry]
            /\ invoked' = [invoked EXCEPT ![t] = <<>>]
       ELSE /\ pc' = [pc EXCEPT ![t] = "va_end"]
            /\ invoked' = [invoked EXCEPT ![t] = @ \o sink_calls(s[t])]
            /\ ret' = NoRet
            /\ UNCHANGED <<lvl, s, entry>>
    /\ UNCHANGED <<build, runtime_log_level, runtime_sink, last_set_level,
                   last_set_sink, harness, calls>>

\* logf, va_end(ap) and the return to the caller
va_end(t) ==
    /\ pc[t] = "va_end"
    /\ pc' = [pc EXCEPT ![t] = "idle"]
    /\ ret' = LogfEnds(t, "returned", invoked[t])
    /\ lvl' = [lvl EXCEPT ![t] = "none"]
    /\ s' = [s EXCEPT ![t] = "none"]
    /\ entry' = [entry EXCEPT ![t] = NoEntry]
    /\ invoked' = [invoked EXCEPT ![t] = <<>>]
    /\ UNCHANGED <<build, runtime_log_level, runtime_sink, last_set_level,
                   last_set_sink, harness, calls, delivered>>

\* Any number of threads use the logging API concurrently.
Next ==
    \/ \E t \in Threads, v \in log_level : set_log_level(t, v) /\ UNCHANGED tcvars
    \/ \E t \in Threads : get_log_level(t) /\ UNCHANGED tcvars
    \/ \E t \in Threads, snk \in Sinks : set_log_sink(t, snk) /\ UNCHANGED tcvars
    \/ \E t \in Threads : get_log_sink(t) /\ UNCHANGED tcvars
    \/ \E t \in Threads, l \in TC_LOG_LEVELS : logf(t, l) /\ UNCHANGED tcvars
    \/ \E t \in Threads : check_level(t) /\ UNCHANGED tcvars
    \/ \E t \in Threads : load_sink(t) /\ UNCHANGED tcvars
    \/ \E t \in Threads : call_sink(t) /\ UNCHANGED tcvars
    \/ \E t \in Threads : va_end(t) /\ UNCHANGED tcvars

Spec == Init /\ [][Next]_vars

\* One thread uses the logging API; its calls and the sink invocations are
\* recorded from the latest set call on.
InitSeq == InitBuild /\ InitLogging /\ InitNoProgram /\ harness = "sequence"

NextSeq ==
    \/ \E v \in log_level : set_log_level("t1", v) /\ UNCHANGED tcvars
    \/ get_log_level("t1") /\ UNCHANGED tcvars
    \/ \E snk \in Sinks : set_log_sink("t1", snk) /\ UNCHANGED tcvars
    \/ get_log_sink("t1") /\ UNCHANGED tcvars
    \/ \E l \in TC_LOG_LEVELS : logf("t1", l) /\ UNCHANGED tcvars
    \/ check_level("t1") /\ UNCHANGED tcvars
    \/ load_sink("t1") /\ UNCHANGED tcvars
    \/ call_sink("t1") /\ UNCHANGED tcvars
    \/ va_end("t1") /\ UNCHANGED tcvars

SpecSeq == InitSeq /\ [][NextSeq]_vars

\* ---------------------------------------------- a pair of set calls
\* log calls thread t1 makes between two set calls of the pair harness
MaxPairCalls == 2

\* Thread t2 makes one set_level call and one set_sink call, in this order or
\* in the reverse order, while thread t1 makes log calls.
PairOrders == {"level then sink", "sink then level"}

\* tc::log::set_level(v) of the pair
pair_set_level ==
    /\ harness \in PairOrders
    /\ last_set_level = "none"
    /\ harness = "sink then level" => last_set_sink # "none"
    /\ \E v \in log_level : set_log_level("t2", v)
    /\ UNCHANGED tcvars

\* tc::log::set_sink(s) of the pair
pair_set_sink ==
    /\ harness \in PairOrders
    /\ last_set_sink = "none"
    /\ harness = "level then sink" => last_set_level # "none"
    /\ \E snk \in Sinks : set_log_sink("t2", snk)
    /\ UNCHANGED tcvars

\* a log call of thread t1
pair_logf ==
    /\ harness \in PairOrders
    /\ Len(calls) < MaxPairCalls
    /\ \E l \in TC_LOG_LEVELS : logf("t1", l)
    /\ UNCHANGED tcvars

InitPair ==
    /\ InitBuild
    /\ InitLogging
    /\ InitNoProgram
    /\ harness \in PairOrders

NextPair ==
    \/ pair_set_level
    \/ pair_set_sink
    \/ pair_logf
    \/ check_level("t1") /\ UNCHANGED tcvars
    \/ load_sink("t1") /\ UNCHANGED tcvars
    \/ call_sink("t1") /\ UNCHANGED tcvars
    \/ va_end("t1") /\ UNCHANGED tcvars

SpecPair == InitPair /\ [][NextPair]_vars

\* ===================================================================
\* The conditional control-flow macros
\* ===================================================================
\* handler clauses attached to one generated TC_TRY block
MaxHandlers == 2

\* Statements of a program that uses the macros. Every statement has the same
\* shape: op, arg (a name and a number), body and handlers (TC_TRY only).
Stmt(op, name, n) ==
    [op |-> op, arg |-> <<name, n>>, body |-> <<>>, handlers |-> <<>>]

\* an ordinary statement of the program, such as "step = 1"
S(name, n) == Stmt("stmt", name, n)

\* TC_THROW(ex), ex of type T
TC_THROW(T) == Stmt("TC_THROW", T, 0)

\* TC_RETHROW()
TC_RETHROW == Stmt("TC_RETHROW", "none", 0)

\* TC_WARN(...) and TC_ERROR(...)
TC_WARN == Stmt("TC_WARN", "warn", 0)
TC_ERROR == Stmt("TC_ERROR", "error", 0)

\* TC_TRY { body } followed by its handler clauses
TC_TRY(name, body, handlers) ==
    [op |-> "TC_TRY", arg |-> <<name, 0>>, body |-> body, handlers |-> handlers]

\* TC_ENABLE_LOGGING: 1 in a debug build, 0 otherwise
TC_ENABLE_LOGGING == TC_DEBUG

\* TC_ENABLE_ERROR_LOGGING: 1
TC_ENABLE_ERROR_LOGGING == TRUE

\* ------------------------------------------------------ handler clauses
CatchAllType == "..."

\* TC_CATCH(T, n) { BODY }
TC_CATCH(T, BODY) == [type |-> T, code |-> BODY]

\* TC_CATCH_ALL() { BODY }
TC_CATCH_ALL(BODY) == [type |-> CatchAllType, code |-> BODY]

\* TC_CATCH_STD_WARN() and TC_CATCH_STD_ERROR()
TC_CATCH_STD_WARN == TC_CATCH("std::exception", <<TC_WARN>>)
TC_CATCH_STD_ERROR == TC_CATCH("std::exception", <<TC_ERROR>>)

\* TC_CATCH_ALL_WARN() and TC_CATCH_ALL_ERROR()
TC_CATCH_ALL_WARN == TC_CATCH_ALL(<<TC_WARN>>)
TC_CATCH_ALL_ERROR == TC_CATCH_ALL(<<TC_ERROR>>)

\* TC_CATCH_STD_WARN_DO(BODY) and TC_CATCH_STD_ERROR_DO(BODY)
TC_CATCH_STD_WARN_DO(BODY) == TC_CATCH("std::exception", <<TC_WARN>> \o BODY)
TC_CATCH_STD_ERROR_DO(BODY) == TC_CATCH("std::exception", <<TC_ERROR>> \o BODY)

\* In a build without exceptions the _AS helpers bind NAME themselves, to a
\* reference made from a null pointer, before the log call.
NameFromNull ==
    IF TC_EXCEPTIONS_ENABLED THEN <<>> ELSE <<S("NAME = *nullptr", 0)>>

\* TC_CATCH_STD_WARN_AS(NAME, BODY) and TC_CATCH_STD_ERROR_AS(NAME, BODY)
TC_CATCH_STD_WARN_AS(BODY) ==
    TC_CATCH("std::exception", NameFromNull \o <<TC_WARN>> \o BODY)
TC_CATCH_STD_ERROR_AS(BODY) ==
    TC_CATCH("std::exception", NameFromNull \o <<TC_ERROR>> \o BODY)

\* a TC_CATCH_ALL_ERROR_DO that logs after BODY
TC_CATCH_ALL_ERROR_DO_body_first(BODY) == TC_CATCH_ALL(BODY \o <<TC_ERROR>>)

\* TC_CATCH_ALL_WARN_DO(BODY) and TC_CATCH_ALL_ERROR_DO(BODY)
TC_CATCH_ALL_WARN_DO(BODY) == TC_CATCH_ALL(<<TC_WARN>> \o BODY)
TC_CATCH_ALL_ERROR_DO(BODY) == TC_CATCH_ALL(<<TC_ERROR>> \o BODY)

\* The typed handler clauses and the catch-all clauses the generated programs
\* attach, by the name of the macro that writes them.
TypedClauses ==
    {"TC_CATCH(std::runtime_error)", "TC_CATCH(std::exception)",
     "TC_CATCH_STD_WARN_DO", "TC_CATCH_STD_ERROR_DO", "TC_CATCH_STD_ERROR_AS",
     "TC_CATCH_STD_ERROR"}

CatchAllClauses ==
    {"TC_CATCH_ALL", "TC_CATCH_ALL_WARN_DO", "TC_CATCH_ALL_ERROR_DO",
     "TC_CATCH_ALL_WARN"}

\* The clause macro m writes around the user's BODY.
Clause(m, BODY) ==
    CASE m = "TC_CATCH(std::runtime_error)" -> TC_CATCH("std::runtime_error", BODY)
      [] m = "TC_CATCH(std::exception)" -> TC_CATCH("std::exception", BODY)
      [] m = "TC_CATCH_ALL" -> TC_CATCH_ALL(BODY)
      [] m = "TC_CATCH_STD_WARN" -> TC_CATCH_STD_WARN
      [] m = "TC_CATCH_STD_ERROR" -> TC_CATCH_STD_ERROR
      [] m = "TC_CATCH_ALL_WARN" -> TC_CATCH_ALL_WARN
      [] m = "TC_CATCH_ALL_ERROR" -> TC_CATCH_ALL_ERROR
      [] m = "TC_CATCH_STD_WARN_DO" -> TC_CATCH_STD_WARN_DO(BODY)
      [] m = "TC_CATCH_STD_ERROR_DO" -> TC_CATCH_STD_ERROR_DO(BODY)
      [] m = "TC_CATCH_STD_WARN_AS" -> TC_CATCH_STD_WARN_AS(BODY)
      [] m = "TC_CATCH_STD_ERROR_AS" -> TC_CATCH_STD_ERROR_AS(BODY)
      [] m = "TC_CATCH_ALL_WARN_DO" -> TC_CATCH_ALL_WARN_DO(BODY)
      [] m = "TC_CATCH_ALL_ERROR_DO" -> TC_CATCH_ALL_ERROR_DO(BODY)

\* ------------------------------------------------------ raised conditions
\* The types the programs raise: two standard error types and an integer.
RaisedTypes == {"std::runtime_error", "std::logic_error", "int"}

\* a catch (T n) that accepts objects of exactly type T only
Compatible_exact(T, R) == T = CatchAllType \/ T = R

\* catch (T n) accepts a raised object of type R: the same type, or a type
\* derived from T; catch (...) accepts every object.
Compatible(T, R) ==
    \/ T = CatchAllType
    \/ T = R
    \/ T = "std::exception" /\ R \in {"std::runtime_error", "std::logic_error"}

\* --------------------------------------------------------------- programs
\* Handler clauses in declaration order: at least one (a try block without a
\* handler does not compile), and a catch-all clause, if any, is last.
ClauseListsUpTo(n) ==
    {cl \in UNION {[1..m -> TypedClauses \cup CatchAllClauses] : m \in 1..n} :
        \A i \in 1..(Len(cl) - 1) : cl[i] \in TypedClauses}

\* The clauses named by cl, each around a BODY of one statement of its own
\* followed by the statements of rest.
Handlers(name, cl, rest) ==
    [k \in 1..Len(cl) |-> Clause(cl[k], <<S(name, k)>> \o rest)]

\* What a generated block body does between its first and its last statement.
BodyActs ==
    {<<>>, <<TC_RETHROW>>} \cup {<<TC_THROW(T)>> : T \in RaisedTypes}

\* main: a statement, one TC_TRY block with handler clauses cl, a statement.
FlatProgram(act, cl) ==
    <<S("main", 1),
      TC_TRY("outer",
             <<S("outer", 1)>> \o act \o <<S("outer", 2)>>,
             Handlers("outer handler", cl, <<>>)),
      S("main", 2)>>

\* The clauses of the nested programs: TC_CATCH and TC_CATCH_ALL themselves.
PlainClauses ==
    {"TC_CATCH(std::runtime_error)", "TC_CATCH(std::exception)", "TC_CATCH_ALL"}

PlainListsUpTo(n) ==
    {cl \in ClauseListsUpTo(n) : \A i \in 1..Len(cl) : cl[i] \in PlainClauses}

\* main: a TC_TRY block whose body holds another TC_TRY block; the inner
\* handlers end in TC_RETHROW() when re is TRUE.
NestedProgram(act, icl, re, ocl) ==
    <<S("main", 1),
      TC_TRY("outer",
             <<S("outer", 1),
               TC_TRY("inner",
                      <<S("inner", 1)>> \o act \o <<S("inner", 2)>>,
                      Handlers("inner handler", icl,
                               IF re THEN <<TC_RETHROW>> ELSE <<>>)),
               S("outer", 2)>>,
             Handlers("outer handler", ocl, <<>>)),
      S("main", 2)>>

\* TEST(CatchOrder, SpecificBeforeGeneral): runtime_error raised under the
\* clauses runtime_error, exception, catch-all.
SpecificBeforeGeneral ==
    FlatProgram(<<TC_THROW("std::runtime_error")>>,
                <<"TC_CATCH(std::runtime_error)", "TC_CATCH(std::exception)",
                  "TC_CATCH_ALL">>)

Programs ==
    {FlatProgram(act, cl) : act \in BodyActs, cl \in ClauseListsUpTo(MaxHandlers)}
        \cup {NestedProgram(act, icl, re, ocl) :
                act \in BodyActs, icl \in PlainListsUpTo(1), re \in BOOLEAN,
                ocl \in PlainListsUpTo(2)}
        \cup {SpecificBeforeGeneral}

\* ------------------------------------------------------------ execution
Frame(kind, blk, code, handlers, exc) ==
    [kind |-> kind, blk |-> blk, code |-> code, i |-> 1,
     handlers |-> handlers, exc |-> exc]

Top == stack[Len(stack)]

\* The thread is about to execute the statement Cur.
AtStmt ==
    /\ harness = "program"
    /\ status = "running"
    /\ pc["t1"] = "idle"
    /\ ret.result # "raised"
    /\ inflight = NoExc
    /\ Top.i <= Len(Top.code)

Cur == Top.code[Top.i]

Advanced == [stack EXCEPT ![Len(stack)].i = @ + 1]

Event(ev, at, exc) == [ev |-> ev, at |-> at, exc |-> exc]

\* TC_TRY written as "if (false)"
TC_TRY_condition_false == FALSE

\* Without exceptions TC_TRY is "if (true)" and every TC_CATCH / TC_CATCH_ALL
\* is "else if (false)".
TC_TRY_condition == TRUE
TC_CATCH_condition == FALSE

\* a chain that always falls into its last branch
BranchTaken_else(conds) == Len(conds)

\* The branch an if / else-if chain with these conditions takes: the first
\* whose condition holds, 0 when none does.
BranchTaken(conds) ==
    IF \E k \in DOMAIN conds : conds[k]
    THEN CHOOSE k \in DOMAIN conds : conds[k] /\ \A j \in 1..(k - 1) : ~conds[j]
    ELSE 0

\* a try block that gives the object to the last clause that accepts it
FirstMatch_last(handlers, R) ==
    IF \E k \in DOMAIN handlers : Compatible(handlers[k].type, R)
    THEN CHOOSE k \in DOMAIN handlers :
            /\ Compatible(handlers[k].type, R)
            /\ \A j \in (k + 1)..Len(handlers) : ~Compatible(handlers[j].type, R)
    ELSE 0

\* The handler a native try block gives a raised object of type R to: the
\* first clause, in declaration order, that accepts it; 0 when none does.
FirstMatch(handlers, R) ==
    BranchTaken([k \in DOMAIN handlers |-> Compatible(handlers[k].type, R)])

\* an ordinary statement
exec_stmt ==
    /\ AtStmt
    /\ Cur.op = "stmt"
    /\ trace' = Append(trace, Event("stmt", Cur.arg, 0))
    /\ stack' = Advanced
    /\ UNCHANGED <<build, logvars, prog, ok, inflight, status, nthrown>>

\* TC_TRY { ... } with its clauses: "try" with "catch" clauses, or the
\* if / else-if chain
exec_try ==
    /\ AtStmt
    /\ Cur.op = "TC_TRY"
    /\ IF TC_EXCEPTIONS_ENABLED
       THEN /\ stack' = Append(Advanced,
                               Frame("try", Cur.arg[1], Cur.body, Cur.handlers, NoExc))
            /\ trace' = Append(trace, Event("try", Cur.arg, 0))
       ELSE LET conds == <<TC_TRY_condition>>
                            \o [k \in DOMAIN Cur.handlers |-> TC_CATCH_condition]
                codes == <<Cur.body>>
                            \o [k \in DOMAIN Cur.handlers |-> Cur.handlers[k].code]
                b == BranchTaken(conds)
            IN  /\ stack' = IF b = 0
                            THEN Advanced
                            ELSE Append(Advanced,
                                        Frame(IF b = 1 THEN "if" ELSE "else if",
                                              Cur.arg[1], codes[b], <<>>, NoExc))
                /\ trace' = IF b = 0 THEN trace
                            ELSE IF b = 1
                            THEN Append(trace, Event("try", Cur.arg, 0))
                            ELSE Append(trace,
                                        Event("catch", <<Cur.arg[1], b - 1>>, 0))
    /\ UNCHANGED <<build, logvars, prog, ok, inflight, status, nthrown>>

\* an abort hook that prints the diagnostic and returns
TC_ABORT_returns(msg) ==
    /\ trace' = Append(trace, Event("abort", <<msg, 0>>, 0))
    /\ stack' = Advanced
    /\ UNCHANGED <<status, inflight, nthrown>>

\* TC_ABORT(msg): default_abort_noexcept prints the diagnostic and calls
\* std::abort, which does not return.
TC_ABORT(msg) ==
    /\ trace' = Append(trace, Event("abort", <<msg, 0>>, 0))
    /\ status' = "aborted"
    /\ UNCHANGED <<stack, inflight, nthrown>>

\* TC_THROW(ex): "throw (ex)", or TC_ABORT
exec_throw ==
    /\ AtStmt
    /\ Cur.op = "TC_THROW"
    /\ IF TC_EXCEPTIONS_ENABLED
       THEN /\ inflight' = [type |-> Cur.arg[1], id |-> nthrown + 1]
            /\ nthrown' = nthrown + 1
            /\ trace' = Append(trace, Event("throw", Cur.arg, nthrown + 1))
            /\ UNCHANGED <<stack, status>>
       ELSE TC_ABORT("TC_THROW called with exceptions disabled")
    /\ UNCHANGED <<build, logvars, prog, ok>>

\* The handlers being executed, innermost last.
ActiveHandlers == SelectSeq(stack, LAMBDA f : f.kind = "catch")

\* "throw e;" in place of "throw;": a new object, sliced to the handler's type
Rethrown_sliced(h) == [type |-> "std::exception", id |-> h.exc.id + 1]

\* The object "throw;" raises inside handler h: the one h is handling.
Rethrown(h) == h.exc

\* TC_RETHROW(): "throw;", which raises the exception being handled again and
\* calls std::terminate when none is; or TC_ABORT
exec_rethrow ==
    /\ AtStmt
    /\ Cur.op = "TC_RETHROW"
    /\ IF TC_EXCEPTIONS_ENABLED
       THEN IF ActiveHandlers # <<>>
            THEN LET h == ActiveHandlers[Len(ActiveHandlers)]
                     x == Rethrown(h)
                 IN  /\ inflight' = x
                     /\ trace' = Append(trace, Event("rethrow", <<x.type, 0>>, x.id))
                     /\ UNCHANGED <<stack, status, nthrown>>
            ELSE /\ status' = "terminated"
                 /\ trace' = Append(trace, Event("terminate", <<"throw;", 0>>, 0))
                 /\ UNCHANGED <<stack, inflight, nthrown>>
       ELSE TC_ABORT("TC_RETHROW called with exceptions disabled")
    /\ UNCHANGED <<build, logvars, prog, ok>>

\* TC_WARN(...) / TC_ERROR(...): TC_LOG_WARN / TC_LOG_ERROR, or ((void)0)
exec_log ==
    /\ AtStmt
    /\ Cur.op \in {"TC_WARN", "TC_ERROR"}
    /\ IF (Cur.op = "TC_WARN" /\ TC_ENABLE_LOGGING)
          \/ (Cur.op = "TC_ERROR" /\ TC_ENABLE_ERROR_LOGGING)
       THEN logf("t1", Cur.arg[1])
       ELSE UNCHANGED <<build, logvars>>
    /\ stack' = Advanced
    /\ UNCHANGED <<prog, ok, inflight, status, trace, nthrown>>

\* The sink invoked by a log call of the program raised: the exception leaves
\* logf at the log statement.
log_raised ==
    /\ harness = "program"
    /\ status = "running"
    /\ ret.op = "logf"
    /\ ret.result = "raised"
    /\ inflight' = [type |-> "std::runtime_error", id |-> nthrown + 1]
    /\ nthrown' = nthrown + 1
    /\ trace' = Append(trace, Event("throw", <<"std::runtime_error", 0>>, nthrown + 1))
    /\ ret' = NoRet
    /\ UNCHANGED <<build, runtime_log_level, runtime_sink, pc, lvl, s, entry,
                   invoked, last_set_level, last_set_sink, harness, calls, delivered,
                   prog, ok, stack, status>>

Unwinding == harness = "program" /\ status = "running" /\ inflight # NoExc

\* The exception reaches a try block one of whose clauses accepts it: that
\* handler is entered.
catch_exception ==
    /\ Unwinding
    /\ Top.kind = "try"
    /\ FirstMatch(Top.handlers, inflight.type) # 0
    /\ LET k == FirstMatch(Top.handlers, inflight.type)
       IN  /\ stack' = [stack EXCEPT ![Len(stack)] =
                           Frame("catch", Top.blk, Top.handlers[k].code, <<>>, inflight)]
           /\ trace' = Append(trace, Event("catch", <<Top.blk, k>>, inflight.id))
    /\ inflight' = NoExc
    /\ UNCHANGED <<build, logvars, prog, ok, status, nthrown>>

\* The exception leaves a block that does not handle it.
propagate ==
    /\ Unwinding
    /\ Len(stack) > 1
    /\ ~(Top.kind = "try" /\ FirstMatch(Top.handlers, inflight.type) # 0)
    /\ stack' = SubSeq(stack, 1, Len(stack) - 1)
    /\ ok' = IF Top.kind = "lambda" THEN SubSeq(ok, 1, Len(ok) - 1) ELSE ok
    /\ UNCHANGED <<build, logvars, prog, inflight, status, trace, nthrown>>

\* The exception leaves main: std::terminate.
terminate_uncaught ==
    /\ Unwinding
    /\ Len(stack) = 1
    /\ status' = "terminated"
    /\ trace' = Append(trace, Event("terminate", <<inflight.type, 0>>, inflight.id))
    /\ UNCHANGED <<build, logvars, prog, ok, stack, inflight, nthrown>>

\* The end of a block: control continues after the TC_TRY statement and its
\* clauses; the end of main ends the program.
block_end ==
    /\ harness = "program"
    /\ status = "running"
    /\ pc["t1"] = "idle"
    /\ ret.result # "raised"
    /\ inflight = NoExc
    /\ Top.i > Len(Top.code)
    /\ IF Len(stack) = 1
       THEN status' = "done" /\ UNCHANGED stack
       ELSE stack' = SubSeq(stack, 1, Len(stack) - 1) /\ UNCHANGED status
    /\ UNCHANGED <<build, logvars, prog, ok, inflight, trace, nthrown>>

\* Before the program runs, the logging state may be configured: a minimum
\* above warn or above error, a sink that raises.
configure_level ==
    /\ harness = "program"
    /\ status = "ready"
    /\ \E v \in {"error", "off"} : set_log_level("t1", v)
    /\ UNCHANGED tcvars

configure_sink ==
    /\ harness = "program"
    /\ status = "ready"
    /\ \E snk \in Sinks \cap {ThrowingSink} : set_log_sink("t1", snk)
    /\ UNCHANGED tcvars

run ==
    /\ harness = "program"
    /\ status = "ready"
    /\ status' = "running"
    /\ UNCHANGED <<build, logvars, prog, ok, stack, inflight, trace, nthrown>>

\* A step of a log call the program has made.
InLogf == harness = "program" /\ status = "running"

InitTC ==
    /\ InitBuild
    /\ InitLogging
    /\ harness = "program"
    /\ prog \in Programs
    /\ stack = <<Frame("main", "main", prog, <<>>, NoExc)>>
    /\ inflight = NoExc
    /\ status = "ready"
    /\ trace = <<>>
    /\ nthrown = 0
    /\ ok = <<>>

NextTC ==
    \/ configure_level
    \/ configure_sink
    \/ run
    \/ exec_stmt
    \/ exec_try
    \/ exec_throw
    \/ exec_rethrow
    \/ exec_log
    \/ InLogf /\ check_level("t1") /\ UNCHANGED tcvars
    \/ InLogf /\ load_sink("t1") /\ UNCHANGED tcvars
    \/ InLogf /\ call_sink("t1") /\ UNCHANGED tcvars
    \/ InLogf /\ va_end("t1") /\ UNCHANGED tcvars
    \/ log_raised
    \/ catch_exception
    \/ propagate
    \/ terminate_uncaught
    \/ block_end

SpecTC == InitTC /\ [][NextTC]_vars

\* ===================================================================
\* TC_GUARD
\* ===================================================================
\* The statements of the lambda TC_GUARD writes.
DeclareOk == Stmt("bool ok", "ok", 0)
AssignOkFalse == Stmt("ok = false", "ok", 0)
ReturnOk == Stmt("return ok", "ok", 0)

\* "bool ok = false;"
ok_declared_false == FALSE

\* "bool ok = true;"
ok_declared == TRUE

\* a guard whose only clause is the one for std::exception
GuardClauses_std_only == <<TC_CATCH("std::exception", <<AssignOkFalse>>)>>

\* The clauses of the lambda: TC_CATCH(const std::exception&, _tc_unused)
\* { ok = false; } and TC_CATCH_ALL() { ok = false; }
GuardClauses ==
    <<TC_CATCH("std::exception", <<AssignOkFalse>>), TC_CATCH_ALL(<<AssignOkFalse>>)>>

\* TC_GUARD(expr), the name telling the guards of one program apart: the
\* lambda declares ok, evaluates (void)(expr) inside TC_TRY, and returns ok.
TC_GUARD(name, expr) ==
    [op |-> "TC_GUARD", arg |-> <<name, 0>>,
     body |-> <<DeclareOk, TC_TRY("guard", expr, GuardClauses), ReturnOk>>,
     handlers |-> <<>>]

\* A call f(x) of a function with these statements.
Call(f, x, code) == [op |-> "call", arg |-> <<f, x>>, body |-> code, handlers |-> <<>>]

\* "return x;", the last statement of function f
Return(f, x) == S(f, x)

\* may_throw(x) of the test suite: with exceptions, "if (x < 0) TC_THROW(
\* std::runtime_error("neg")); return x;", without, "return x;"
may_throw(x) ==
    Call("may_throw", x,
         IF TC_EXCEPTIONS_ENABLED
         THEN (IF x < 0 THEN <<TC_THROW("std::runtime_error")>> ELSE <<>>)
                  \o <<Return("may_throw", x)>>
         ELSE <<Return("may_throw", x)>>)

\* Functions that raise something that is not a standard error, that handle
\* and raise again what they call raises, and that log an error.
raise_int(x) == Call("raise_int", x, <<TC_THROW("int"), Return("raise_int", x)>>)

retry(x) ==
    Call("retry", x,
         <<TC_TRY("inner", <<may_throw(x)>>,
                  <<TC_CATCH("std::exception", <<TC_RETHROW>>)>>),
           Return("retry", x)>>)

report(x) == Call("report", x, <<TC_ERROR, Return("report", x)>>)

\* The expressions the programs guard. A build without exceptions leaves out
\* the call that would end the process in TC_ABORT.
GuardedExprs ==
    {may_throw(1), may_throw(-1), retry(1), retry(-1), report(0)}
        \cup (IF TC_EXCEPTIONS_ENABLED THEN {raise_int(0)} ELSE {})

\* What main does after its guards: nothing more, or a TC_THROW of its own.
GuardTails == {<<>>, <<TC_THROW("int")>>}

\* main: TEST(Guard, ReturnsFalseOnExceptionWhenEnabled), two guards in a row
GuardProgram(e1, e2, tail) ==
    <<S("main", 1), TC_GUARD("g1", <<e1>>), TC_GUARD("g2", <<e2>>), S("main", 2)>>
        \o tail

GuardPrograms ==
    {GuardProgram(e1, e2, tail) :
        e1 \in GuardedExprs, e2 \in GuardedExprs, tail \in GuardTails}

\* ([&]() -> bool { ... }()): the lambda is called where the macro stands
exec_guard ==
    /\ AtStmt
    /\ Cur.op = "TC_GUARD"
    /\ stack' = Append(Advanced, Frame("lambda", Cur.arg[1], Cur.body, <<>>, NoExc))
    /\ trace' = Append(trace, Event("guard", Cur.arg, 0))
    /\ UNCHANGED <<build, logvars, prog, ok, inflight, status, nthrown>>

\* bool ok = true;
exec_declare_ok ==
    /\ AtStmt
    /\ Cur.op = "bool ok"
    /\ ok' = Append(ok, ok_declared)
    /\ stack' = Advanced
    /\ UNCHANGED <<build, logvars, prog, inflight, status, trace, nthrown>>

\* ok = false;
exec_assign_ok ==
    /\ AtStmt
    /\ Cur.op = "ok = false"
    /\ ok' = [ok EXCEPT ![Len(ok)] = FALSE]
    /\ stack' = Advanced
    /\ UNCHANGED <<build, logvars, prog, inflight, status, trace, nthrown>>

\* return ok; the value of the TC_GUARD expression
exec_return_ok ==
    /\ AtStmt
    /\ Cur.op = "return ok"
    /\ trace' = Append(trace, Event(IF ok[Len(ok)] THEN "guard true" ELSE "guard false",
                                    <<Top.blk, 0>>, 0))
    /\ ok' = SubSeq(ok, 1, Len(ok) - 1)
    /\ stack' = SubSeq(stack, 1, Len(stack) - 1)
    /\ UNCHANGED <<build, logvars, prog, inflight, status, nthrown>>

\* (void)(expr): the function the expression calls is entered
exec_call ==
    /\ AtStmt
    /\ Cur.op = "call"
    /\ stack' = Append(Advanced, Frame("call", Cur.arg[1], Cur.body, <<>>, NoExc))
    /\ trace' = Append(trace, Event("call", Cur.arg, 0))
    /\ UNCHANGED <<build, logvars, prog, ok, inflight, status, nthrown>>

InitGuard ==
    /\ InitBuild
    /\ InitLogging
    /\ harness = "program"
    /\ prog \in GuardPrograms
    /\ stack = <<Frame("main", "main", prog, <<>>, NoExc)>>
    /\ inflight = NoExc
    /\ status = "ready"
    /\ trace = <<>>
    /\ nthrown = 0
    /\ ok = <<>>

NextGuard ==
    \/ configure_level
    \/ configure_sink
    \/ run
    \/ exec_stmt
    \/ exec_guard
    \/ exec_declare_ok
    \/ exec_assign_ok
    \/ exec_return_ok
    \/ exec_call
    \/ exec_try
    \/ exec_throw
    \/ exec_rethrow
    \/ exec_log
    \/ InLogf /\ check_level("t1") /\ UNCHANGED tcvars
    \/ InLogf /\ load_sink("t1") /\ UNCHANGED tcvars
    \/ InLogf /\ call_sink("t1") /\ UNCHANGED tcvars
    \/ InLogf /\ va_end("t1") /\ UNCHANGED tcvars
    \/ log_raised
    \/ catch_exception
    \/ propagate
    \/ terminate_uncaught
    \/ block_end

SpecGuard == InitGuard /\ [][NextGuard]_vars

\* ===================================================================
\* Properties of the logging dispatcher
\* ===================================================================
\* The order trace < debug < info < warn < error < off, as the data model
\* states it.
Rank(l) ==
    CHOOSE i \in 1..6 :
        <<"trace", "debug", "info", "warn", "error", "off">>[i] = l

\* The configured minimum a log call ran under, fixed for its duration.
MinOf(r) == CHOOSE L \in log_level : static_cast_int(L) = r.entry.level

\* A log call has just ended whose level and sink no set call touched.
FixedLogEnded == ret.op = "logf" /\ ret.entry.fixed

\* C1: for every configured minimum L and event level E among trace..error,
\* a log call at level E (L and a non-null sink fixed for its duration)
\* invokes the active sink iff E >= L; when E < L it is a no-op that returns.
C1_DeliveredIffNotBelow ==
    \A L \in log_level, E \in TC_LOG_LEVELS :
        (/\ FixedLogEnded
         /\ ret.lvl = E
         /\ ret.entry.level = static_cast_int(L)
         /\ ret.entry.sink # NullSink)
        => /\ (ret.invoked = <<ret.entry.sink>>) <=> (Rank(E) >= Rank(L))
           /\ Rank(E) < Rank(L) => (ret.invoked = <<>> /\ ret.result = "returned")

\* a warn event under minimum warn has been delivered, while the other
\* thread is inside a log call of its own
C1_Witness ==
    /\ FixedLogEnded
    /\ ret.lvl = "warn"
    /\ ret.entry.level = static_cast_int("warn")
    /\ ret.invoked = <<MemSink>>
    /\ \E t \in Threads : pc[t] # "idle"

\* The events of cs that are not below minimum L, in order.
NotBelow(cs, L) == SelectSeq(cs, LAMBDA e : Rank(e) >= Rank(L))

\* The sink invocations that deliver exactly the events of cs to snk.
Deliveries(cs, snk) == [i \in 1..Len(cs) |-> [sink |-> snk, lvl |-> cs[i]]]

\* C2: with level and sink fixed, the sink invocations one thread's log calls
\* have caused are exactly the calls not below the minimum, in emission order,
\* each once; a call's invocation is made before the call returns.
C2_ExactSubsequenceInOrder ==
    LET L == static_cast_log_level(runtime_log_level)
        returned == IF pc["t1"] \in {"idle", "va_end"}
                    THEN calls
                    ELSE SubSeq(calls, 1, Len(calls) - 1)
    IN  harness = "sequence" =>
            IF runtime_sink = NullSink
            THEN delivered = <<>>
            ELSE delivered = Deliveries(NotBelow(returned, L), runtime_sink)

\* minimum info; debug, info, warn, error emitted; three events delivered
C2_Witness ==
    /\ harness = "sequence"
    /\ pc["t1"] = "idle"
    /\ runtime_log_level = static_cast_int("info")
    /\ runtime_sink = MemSink
    /\ calls = <<"debug", "info", "warn", "error">>
    /\ delivered = <<[sink |-> MemSink, lvl |-> "info"],
                     [sink |-> MemSink, lvl |-> "warn"],
                     [sink |-> MemSink, lvl |-> "error"]>>

\* C3: after set_sink(S), get_sink() returns S, and a log call made after it
\* that passes the level filter is delivered to S and to no other sink.
C3_SinkReplacedForNextCall ==
    last_set_sink # "none" =>
        /\ ret.op = "get_sink" => ret.val = last_set_sink
        /\ (FixedLogEnded /\ Rank(ret.lvl) >= Rank(MinOf(ret)))
           => /\ \A i \in DOMAIN ret.invoked : ret.invoked[i] = last_set_sink
              /\ last_set_sink # NullSink => Len(ret.invoked) = 1

\* the default sink was replaced by MemSink and the next passing call went to it
C3_Witness ==
    /\ last_set_sink = MemSink
    /\ FixedLogEnded
    /\ ret.invoked = <<MemSink>>

\* C4: after set_level(L), get_level() returns L and log calls are filtered
\* against L; a level read with get_level and set again leaves the stored
\* level as it was (round trip, all six levels).
C4_LevelSetGetRoundTrip ==
    /\ level_stored(level_loaded) = runtime_log_level
    /\ last_set_level # "none" =>
        /\ ret.op = "get_level" => ret.val = last_set_level
        /\ (FixedLogEnded /\ ret.entry.sink # NullSink)
           => (Len(ret.invoked) = 1 <=> Rank(ret.lvl) >= Rank(last_set_level))

\* get_level() has returned off after set_level(off)
C4_Witness ==
    /\ last_set_level = "off"
    /\ ret.op = "get_level"
    /\ ret.val = "off"

\* C5: with the sink set to null a log call at any level under any minimum
\* invokes no sink, returns normally, and leaves level and sink as they were.
C5_NullSinkNoOp ==
    (FixedLogEnded /\ ret.entry.sink = NullSink)
    => /\ ret.invoked = <<>>
       /\ ret.result = "returned"
       /\ runtime_log_level = ret.entry.level
       /\ runtime_sink = NullSink

\* an error event passed the level filter and met the null sink
C5_Witness ==
    /\ FixedLogEnded
    /\ ret.entry.sink = NullSink
    /\ last_set_sink = NullSink
    /\ ret.lvl = "error"
    /\ Rank(MinOf(ret)) <= Rank("error")

RaisingBuild == harness = "program" /\ TC_EXCEPTIONS_ENABLED
NonRaisingBuild == harness = "program" /\ ~TC_EXCEPTIONS_ENABLED

\* The TC_TRY statement of the program with this name.
Block(name) == IF name = "outer" THEN prog[2] ELSE prog[2].body[2]

IsNested == prog[2].body[2].op = "TC_TRY"

Ran(e) == \E i \in DOMAIN trace : trace[i] = e

\* The positions in the trace at which a handler of block name was entered.
Entered(name) ==
    {i \in DOMAIN trace : trace[i].ev = "catch" /\ trace[i].at[1] = name}

\* The type of the exception object with this id, from where it was raised.
TypeRaised(id) ==
    LET i == CHOOSE i \in DOMAIN trace : trace[i].ev = "throw" /\ trace[i].exc = id
    IN  trace[i].at[1]

\* Type compatibility of a handler clause with a raised condition, as the
\* error-handling design states it: a clause takes its own type, a clause for
\* the general standard error type takes every standard error, a catch-all
\* takes everything.
Accepts(clause, R) ==
    \/ clause.type = "..."
    \/ clause.type = R
    \/ clause.type = "std::exception" /\ R \in {"std::runtime_error", "std::logic_error"}

\* The first clause of hs, in declaration order, that accepts R; 0 if none.
FirstAccepting(hs, R) ==
    IF \E k \in DOMAIN hs : Accepts(hs[k], R)
    THEN CHOOSE k \in DOMAIN hs :
            Accepts(hs[k], R) /\ \A j \in 1..(k - 1) : ~Accepts(hs[j], R)
    ELSE 0

\* The statement the macro user wrote as BODY of clause k of block name ran.
BodyRan(name, k) ==
    Ran(Event("stmt", <<IF name = "outer" THEN "outer handler" ELSE "inner handler", k>>, 0))

\* C7: in a raising-capable build, of the handlers attached to one TC_TRY block
\* only the first, in declaration order, whose type is compatible with the
\* raised condition runs: every handler that runs is that one, no other
\* handler body of the block runs, and once the condition raised by the body
\* of a single block has been dealt with that handler has been entered.
C7_FirstCompatibleHandlerOnly ==
    RaisingBuild =>
        /\ \A name \in {"outer", "inner"} :
            /\ Cardinality(Entered(name)) <= 1
            /\ \A i \in Entered(name) :
                   trace[i].at[2] =
                       FirstAccepting(Block(name).handlers, TypeRaised(trace[i].exc))
            /\ (name = "inner" => IsNested) =>
                   \A k \in DOMAIN Block(name).handlers :
                       BodyRan(name, k) =>
                           \E i \in Entered(name) : trace[i].at[2] = k
        /\ (/\ ~IsNested
            /\ prog[2].body[2].op = "TC_THROW"
            /\ Ran(Event("throw", prog[2].body[2].arg, 1))
            /\ (inflight = NoExc \/ inflight.id # 1)
            /\ FirstAccepting(prog[2].handlers, prog[2].body[2].arg[1]) # 0)
           => \E i \in Entered("outer") : trace[i].exc = 1

\* SpecificBeforeGeneral has run: runtime_error raised, the runtime_error
\* clause ran, the exception clause and the catch-all did not
C7_Witness ==
    /\ RaisingBuild
    /\ prog = SpecificBeforeGeneral
    /\ status = "done"
    /\ BodyRan("outer", 1)
    /\ ~BodyRan("outer", 2)
    /\ ~BodyRan("outer", 3)

\* C8: in a raising-capable build, when the handler of an inner TC_TRY block
\* catches a condition and calls TC_RETHROW(), the inner handler has run once,
\* and an outer block with a clause for a compatible type receives the same
\* condition once, after the inner handler.
C8_RethrowReachesOuterOnce ==
    (RaisingBuild /\ IsNested) =>
        \A r \in DOMAIN trace :
            trace[r].ev = "rethrow" =>
                /\ \E i \in Entered("inner") :
                       /\ i < r
                       /\ trace[i].exc = trace[r].exc
                       /\ Entered("inner") = {i}
                /\ TypeRaised(trace[r].exc) = trace[r].at[1]
                /\ (/\ inflight = NoExc
                    /\ FirstAccepting(Block("outer").handlers, trace[r].at[1]) # 0)
                   => \E o \in Entered("outer") :
                          /\ o > r
                          /\ trace[o].exc = trace[r].exc
                          /\ Entered("outer") = {o}

\* TEST(Rethrow, InnerCatchRethrowOuterHandles) has run: inner = 1, outer = 1
C8_Witness ==
    /\ RaisingBuild
    /\ prog = NestedProgram(<<TC_THROW("std::runtime_error")>>,
                            <<"TC_CATCH(std::runtime_error)">>, TRUE,
                            <<"TC_CATCH(std::exception)">>)
    /\ status = "done"
    /\ BodyRan("inner", 1)
    /\ BodyRan("outer", 1)

\* Statements that stand inside a handler clause.
InHandler(e) ==
    \/ e.ev = "catch"
    \/ e.ev = "stmt" /\ e.at[1] \in {"outer handler", "inner handler", "NAME = *nullptr"}

\* C9: in a non-raising build the body of a TC_TRY block that is reached
\* executes, no handler attached to it executes, whatever clauses and helper
\* macros are attached, and no log event of a handler reaches the sink.
C9_BodyRunsHandlersNever ==
    NonRaisingBuild =>
        /\ \A i \in DOMAIN trace : ~InHandler(trace[i])
        /\ calls = <<>>
        /\ delivered = <<>>
        /\ stack[1].i > 2 => Ran(Event("try", <<"outer", 0>>, 0))
        /\ status = "done" =>
               /\ Ran(Event("stmt", <<"outer", 1>>, 0))
               /\ Ran(Event("stmt", <<"outer", 2>>, 0))
               /\ IsNested => Ran(Event("try", <<"inner", 0>>, 0))

\* a block with a logging helper clause and a catch-all clause has run to its
\* end in a non-raising build
C9_Witness ==
    /\ NonRaisingBuild
    /\ status = "done"
    /\ Len(prog[2].handlers) = 2
    /\ prog[2].handlers[1] = TC_CATCH_STD_WARN_DO(<<S("outer handler", 1)>>)
    /\ prog[2].handlers[2].type = "..."
    /\ Ran(Event("stmt", <<"outer", 2>>, 0))

\* The body of block name raises between its first and second statement.
BodyRaises(name) ==
    LET b == Block(name).body IN
        b[2].op \in {"TC_THROW", "TC_RETHROW"}

\* C10: in a non-raising build, executing TC_THROW or TC_RETHROW invokes the
\* abort hook and the process ends there: nothing runs after the raise point,
\* no handler runs, and no step leads back to the caller.
C10_RaiseAbortsProcess ==
    NonRaisingBuild =>
        /\ \A i \in DOMAIN trace :
               trace[i].ev = "abort" => (i = Len(trace) /\ status = "aborted")
        /\ status = "aborted" =>
               /\ trace[Len(trace)].ev = "abort"
               /\ ~ENABLED NextTC
        /\ \A i \in DOMAIN trace : trace[i].ev # "catch"
        /\ \A name \in {"outer", "inner"} :
               (/\ name = "inner" => IsNested
                /\ BodyRaises(name)
                /\ Ran(Event("stmt", <<name, 1>>, 0)))
               => /\ ~Ran(Event("stmt", <<name, 2>>, 0))
                  /\ status # "done"
                  /\ (status = "running" => (AtStmt /\ Cur.op = Block(name).body[2].op))

\* TC_THROW has been executed in a non-raising build under two handler
\* clauses: the process is aborted with the diagnostic of TC_THROW
C10_Witness ==
    /\ NonRaisingBuild
    /\ status = "aborted"
    /\ Len(prog[2].handlers) = 2
    /\ trace[Len(trace)] =
           Event("abort", <<"TC_THROW called with exceptions disabled", 0>>, 0)

\* ===================================================================
\* Properties of TC_GUARD
\* ===================================================================
GuardNames == {"g1", "g2"}

\* The TC_GUARD statement of the program with this name, and the call it guards.
GuardStmt(g) == IF g = "g1" THEN prog[2] ELSE prog[3]
GuardedCall(g) == GuardStmt(g).body[2].body[1]

\* Where the trace shows guard g being entered, and returning its value.
Started(g) == {i \in DOMAIN trace : trace[i] = Event("guard", <<g, 0>>, 0)}
Results(g) ==
    {i \in DOMAIN trace :
        trace[i].ev \in {"guard true", "guard false"} /\ trace[i].at[1] = g}

\* The part of the trace that lies inside guard g.
Evaluation(g) ==
    {i \in DOMAIN trace :
        /\ \E a \in Started(g) : a < i
        /\ \A r \in Results(g) : i < r}

\* The evaluations of the guarded expression inside guard g, and whether one
\* of them ran to its return statement.
Evaluated(g) ==
    {i \in Evaluation(g) : trace[i] = Event("call", GuardedCall(g).arg, 0)}
Completed(g) ==
    \E i \in Evaluation(g) : trace[i] = Event("stmt", GuardedCall(g).arg, 0)

\* C11: in a raising-capable build TC_GUARD(expr) evaluates expr exactly once
\* and returns true iff the evaluation completed without raising; a raised
\* standard error and a raised value of any other type both give false, and
\* nothing raised inside the guard leaves it: until it returns, its lambda
\* is on the stack, and the process is not terminated from inside it.
C11_GuardTrueIffCompleted ==
    RaisingBuild =>
        /\ \A g \in GuardNames :
            /\ Cardinality(Started(g)) <= 1
            /\ Cardinality(Results(g)) <= 1
            /\ Cardinality(Evaluated(g)) <= 1
            /\ \A r \in Results(g) :
                /\ Cardinality(Evaluated(g)) = 1
                /\ trace[r].ev = "guard true" <=> Completed(g)
                /\ GuardedCall(g).arg = <<"may_throw", 1>> => trace[r].ev = "guard true"
                /\ GuardedCall(g).arg = <<"may_throw", -1>> => trace[r].ev = "guard false"
                /\ GuardedCall(g).arg[1] = "raise_int" => trace[r].ev = "guard false"
            /\ (Started(g) # {} /\ Results(g) = {}) =>
                /\ \E k \in DOMAIN stack : stack[k].kind = "lambda" /\ stack[k].blk = g
                /\ status = "running"
        /\ \A i \in DOMAIN trace :
               trace[i].ev = "terminate" =>
                   \A g \in GuardNames : \E r \in Results(g) : r < i

\* TEST(Guard, ReturnsFalseOnExceptionWhenEnabled) has run with exceptions:
\* true for may_throw(1), false for may_throw(-1)
C11_Witness ==
    /\ RaisingBuild
    /\ status = "done"
    /\ GuardedCall("g1").arg = <<"may_throw", 1>>
    /\ GuardedCall("g2").arg = <<"may_throw", -1>>
    /\ Ran(Event("guard true", <<"g1", 0>>, 0))
    /\ Ran(Event("guard false", <<"g2", 0>>, 0))

\* C12: in a non-raising build TC_GUARD(expr) returns true for every wrapped
\* operation that returns, whatever the operation returns: ok is never made
\* false, every guard value is true, and a guard whose operation has returned
\* returns before the program continues.
C12_GuardAlwaysTrue ==
    NonRaisingBuild =>
        /\ \A k \in DOMAIN ok : ok[k]
        /\ \A g \in GuardNames :
            /\ \A r \in Results(g) :
                   trace[r].ev = "guard true" /\ Cardinality(Evaluated(g)) = 1
            /\ Cardinality(Results(g)) <= 1
            /\ (Completed(g) /\ (status = "done" \/ ok = <<>>)) => Results(g) # {}
        /\ status = "done" => \A g \in GuardNames : Results(g) # {}

\* the same test without exceptions: true for may_throw(1) and for may_throw(-1)
C12_Witness ==
    /\ NonRaisingBuild
    /\ status = "done"
    /\ GuardedCall("g1").arg = <<"may_throw", 1>>
    /\ GuardedCall("g2").arg = <<"may_throw", -1>>
    /\ Ran(Event("stmt", <<"may_throw", -1>>, 0))
    /\ Ran(Event("guard true", <<"g1", 0>>, 0))
    /\ Ran(Event("guard true", <<"g2", 0>>, 0))

\* ===================================================================
\* Properties of concurrent configuration
\* ===================================================================
\* The level and the sink before the pair of set calls.
OldLevel == static_cast_log_level(initial_level)
OldSink == initial_sink

\* The log call of t1 that has just ended invoked a sink.
Delivered == ret.op = "logf" /\ ret.invoked # <<>>

\* The ended log call passed an event only the old level lets through and
\* gave it to the sink the pair installed.
OldLevelNewSink ==
    /\ Delivered
    /\ last_set_level # "none"
    /\ last_set_sink \notin {"none", OldSink}
    /\ Rank(ret.lvl) >= Rank(OldLevel)
    /\ Rank(ret.lvl) < Rank(last_set_level)
    /\ ret.invoked = <<last_set_sink>>

\* The ended log call passed an event only the new level lets through and
\* gave it to the sink that was active before the pair.
NewLevelOldSink ==
    /\ Delivered
    /\ last_set_level # "none"
    /\ last_set_sink \notin {"none", OldSink}
    /\ Rank(ret.lvl) < Rank(OldLevel)
    /\ Rank(ret.lvl) >= Rank(last_set_level)
    /\ ret.invoked = <<OldSink>>

LatestLevel == IF last_set_level = "none" THEN OldLevel ELSE last_set_level
LatestSink == IF last_set_sink = "none" THEN OldSink ELSE last_set_sink

\* C14: the process-wide state holds one level, that of an enumerator, and
\* one sink reference or null; both are the initial value or the value the
\* latest set call wrote, whole. Under every interleaving of the five
\* operations across threads get_level and get_sink return that value, the
\* sink a log call has read is a sink that was installed (the one it was
\* entered with, if no set call has been made since), and a log call invokes
\* at most one sink.
C14_OneLevelOneSinkWholeValues ==
    /\ runtime_log_level \in {static_cast_int(l) : l \in log_level}
    /\ runtime_sink \in Sinks
    /\ runtime_log_level = static_cast_int(LatestLevel)
    /\ runtime_sink = LatestSink
    /\ ret.op = "get_level" => (ret.val \in log_level /\ ret.val = LatestLevel)
    /\ ret.op = "get_sink" => (ret.val \in Sinks /\ ret.val = LatestSink)
    /\ \A t \in Threads :
        /\ pc[t] \in {"call_sink", "va_end"} /\ s[t] # "none" => s[t] \in Sinks
        /\ pc[t] = "call_sink" => s[t] \in Sinks \ {NullSink}
        /\ (entry[t].fixed /\ s[t] # "none") => s[t] = entry[t].sink
        /\ Len(invoked[t]) <= 1
        /\ \A i \in DOMAIN invoked[t] : invoked[t][i] = s[t]
    /\ ret.op = "logf" => Len(ret.invoked) <= 1

\* get_level has returned the level another set call wrote while a log call
\* of the other thread still holds the sink it read before set_sink(MemSink)
C14_Witness ==
    /\ ret.op = "get_level"
    /\ ret.val = "warn"
    /\ last_set_level = "warn"
    /\ runtime_sink = MemSink
    /\ \E t \in Threads : pc[t] = "call_sink" /\ s[t] = default_stderr_sink

\* C15: before any set call the level is debug in a debug build and info in
\* an optimized build, and the sink is the default standard-error sink, not
\* null; so by default a debug event is delivered in a debug build and dropped
\* in an optimized build, and a trace event is dropped in both.
C15_InitialStatePerBuild ==
    (last_set_level = "none" /\ last_set_sink = "none") =>
        /\ runtime_log_level = static_cast_int(IF TC_DEBUG THEN "debug" ELSE "info")
        /\ runtime_sink = default_stderr_sink
        /\ runtime_sink # NullSink
        /\ ret.op = "get_level" => ret.val = (IF TC_DEBUG THEN "debug" ELSE "info")
        /\ ret.op = "get_sink" => ret.val = default_stderr_sink
        /\ ret.op = "logf" =>
            /\ ret.lvl = "debug" =>
                   IF TC_DEBUG THEN ret.invoked = <<default_stderr_sink>>
                               ELSE ret.invoked = <<>>
            /\ ret.lvl = "trace" => ret.invoked = <<>>
            /\ ret.lvl \in {"info", "warn", "error"} =>
                   ret.invoked = <<default_stderr_sink>>

\* an optimized build has dropped a debug event before any set call, while
\* the other thread is inside a log call
C15_Witness ==
    /\ ~TC_DEBUG
    /\ last_set_level = "none"
    /\ last_set_sink = "none"
    /\ ret.op = "logf"
    /\ ret.lvl = "debug"
    /\ ret.invoked = <<>>
    /\ \E t \in Threads : pc[t] = "call_sink"

\* C18: a step of a log call (delivered or filtered), get_level and get_sink
\* leave the configured level and the active sink unchanged; set_level leaves
\* the sink unchanged and set_sink leaves the level unchanged.
C18_FrameConditions ==
    /\ [](FixedLogEnded =>
             /\ runtime_log_level = ret.entry.level
             /\ runtime_sink = ret.entry.sink)
    /\ [][/\ (\E t \in Threads, l \in TC_LOG_LEVELS : logf(t, l))
              => UNCHANGED <<runtime_log_level, runtime_sink>>
          /\ (\E t \in Threads :
                  check_level(t) \/ load_sink(t) \/ call_sink(t) \/ va_end(t))
              => UNCHANGED <<runtime_log_level, runtime_sink>>
          /\ (\E t \in Threads : get_log_level(t) \/ get_log_sink(t))
              => UNCHANGED <<runtime_log_level, runtime_sink>>
          /\ (\E t \in Threads, v \in log_level : set_log_level(t, v))
              => UNCHANGED runtime_sink
          /\ (\E t \in Threads, snk \in Sinks : set_log_sink(t, snk))
              => UNCHANGED runtime_log_level]_vars

\* set_level(error) has been called after set_sink(MemSink): the sink is
\* still MemSink, and a filtered log call has ended with both as they were
C18_Witness ==
    /\ last_set_sink = MemSink
    /\ last_set_level = "error"
    /\ runtime_sink = MemSink
    /\ runtime_log_level = static_cast_int("error")
    /\ ret.op = "logf"
    /\ ret.lvl = "warn"
    /\ ret.invoked = <<>>

\* ===================================================================
\* Properties of the catch helpers and of the two expansions
\* ===================================================================
\* The BODY the generated programs give clause k of the outer block.
UserBody(k) == <<S("outer handler", k)>>

\* Clause k of the outer block is written with a user-body helper that logs
\* at warn, or with one that logs at error.
IsWarnDo(k) ==
    prog[2].handlers[k] \in
        {TC_CATCH_STD_WARN_DO(UserBody(k)), TC_CATCH_ALL_WARN_DO(UserBody(k))}
IsErrorDo(k) ==
    prog[2].handlers[k] \in
        {TC_CATCH_STD_ERROR_DO(UserBody(k)), TC_CATCH_ALL_ERROR_DO(UserBody(k))}

\* The log calls such a helper makes: TC_WARN is compiled in only in a debug
\* build, TC_ERROR always.
HelperCalls(k) ==
    IF IsWarnDo(k) THEN (IF TC_DEBUG THEN <<"warn">> ELSE <<>>) ELSE <<"error">>

\* Handler k of the outer block has been entered; the times its BODY has run.
HandlerEntered(k) == \E i \in Entered("outer") : trace[i].at[2] = k
BodyRuns(k) ==
    Cardinality({i \in DOMAIN trace :
                    trace[i] = Event("stmt", <<"outer handler", k>>, 0)})

\* The entered handler of the outer block has not reached its BODY yet.
BeforeBody ==
    /\ status = "running"
    /\ Top.kind = "catch"
    /\ Top.blk = "outer"
    /\ Top.i <= 2
    /\ inflight = NoExc
    /\ ret.result # "raised"

\* The sink the helper's log call invoked raised.
HelperLogRaised ==
    /\ delivered # <<>>
    /\ SinkRaises(delivered[Len(delivered)].sink)

\* The condition the body of the outer block raised has been dealt with.
BodyRaiseHandled ==
    /\ prog[2].body[2].op = "TC_THROW"
    /\ Ran(Event("throw", prog[2].body[2].arg, 1))
    /\ (inflight = NoExc \/ inflight.id # 1)

\* What holds of the user-body helpers whatever the sink does: BODY runs at
\* most once, in the handler that matched, after the helper's log call has
\* been made and has returned.
HelperLogsThenBody(k) ==
    /\ BodyRuns(k) <= 1
    /\ BodyRuns(k) = 1 =>
        /\ HandlerEntered(k)
        /\ calls = HelperCalls(k)
        /\ pc["t1"] = "idle"
        /\ ~HelperLogRaised
    /\ (BodyRaiseHandled /\ FirstAccepting(prog[2].handlers, prog[2].body[2].arg[1]) = k)
       => HandlerEntered(k)

ThrowingBlocks ==
    {name \in {"outer", "inner"} :
        /\ name = "inner" => IsNested
        /\ Block(name).body[2].op = "TC_THROW"}

\* The condition the body of block name raises, once it has been raised.
RaisedIn(name) == Block(name).body[2].arg[1]
HasRaised(name) == Ran(Event("throw", Block(name).body[2].arg, 1))

\* The raised condition has not yet been given to a handler of block name
\* nor left the block.
Pending(name) ==
    /\ inflight.id = 1
    /\ status = "running"
    /\ Top.kind = "try"
    /\ Top.blk = name

\* Control leaves the body of a raising block at the raise point, at most one
\* attached handler runs, and a catch-all clause runs exactly when no clause
\* before it accepts the raised condition.
LeavesAtRaisePoint(name) ==
    LET hs == Block(name).handlers
        R == RaisedIn(name)
    IN  /\ Ran(Event("stmt", <<name, 2>>, 0)) = FALSE
        /\ Cardinality(Entered(name)) <= 1
        /\ \A i \in Entered(name) : trace[i].at[2] = FirstAccepting(hs, R)
        /\ (HasRaised(name) /\ ~Pending(name)) =>
               \A c \in DOMAIN hs :
                   hs[c].type = "..." =>
                       ((\E i \in Entered(name) : trace[i].at[2] = c)
                            <=> \A j \in 1..(c - 1) : ~Accepts(hs[j], R))

\* C17, as claimed: in a raising-capable build, when the body of a TC_TRY
\* block raises, control leaves the body at the raise point and exactly one
\* attached handler runs, the catch-all exactly when no earlier typed handler
\* is compatible.
C17_ExactlyOneHandlerRuns ==
    RaisingBuild =>
        \A name \in ThrowingBlocks :
            /\ LeavesAtRaisePoint(name)
            /\ (HasRaised(name) /\ ~Pending(name)) =>
                   Cardinality(Entered(name)) = 1

\* C17, amended: when the body raises, control leaves it at the raise point
\* and the first attached handler compatible with the condition runs, alone;
\* that is exactly one handler whenever some clause is compatible (always,
\* with a TC_CATCH_ALL attached), and none when no clause is: the condition
\* then leaves the block for the enclosing handler or ends the program.
C17_OneHandlerIfCompatibleElseNone ==
    RaisingBuild =>
        \A name \in ThrowingBlocks :
            /\ LeavesAtRaisePoint(name)
            /\ (HasRaised(name) /\ ~Pending(name)) =>
                   IF FirstAccepting(Block(name).handlers, RaisedIn(name)) # 0
                   THEN Cardinality(Entered(name)) = 1
                   ELSE /\ Entered(name) = {}
                        /\ status # "done" \/ Entered("outer") # {}
                        /\ name = "outer" =>
                               (inflight.id = 1 /\ status \in {"running", "terminated"})

\* TEST(TryCatch, CatchAll) has run: an int raised under TC_CATCH(std::exception)
\* and TC_CATCH_ALL skipped the first handler and ran the catch-all; the
\* statement after the raise point did not run
C17_Witness ==
    /\ RaisingBuild
    /\ prog = FlatProgram(<<TC_THROW("int")>>,
                          <<"TC_CATCH(std::exception)", "TC_CATCH_ALL">>)
    /\ status = "done"
    /\ BodyRan("outer", 2)
    /\ ~BodyRan("outer", 1)
    /\ Ran(Event("stmt", <<"outer", 1>>, 0))
    /\ ~Ran(Event("stmt", <<"outer", 2>>, 0))

\* The body of the block, and of the block nested in it, does not raise.
BodyDoesNotRaise ==
    IF IsNested THEN Len(prog[2].body[2].body) = 2 ELSE Len(prog[2].body) = 2

\* What a program does when no raise point is reached: its statements in
\* order, with the bodies of its TC_TRY blocks and none of their handlers.
StraightRun ==
    IF IsNested
    THEN <<Event("stmt", <<"main", 1>>, 0), Event("try", <<"outer", 0>>, 0),
           Event("stmt", <<"outer", 1>>, 0), Event("try", <<"inner", 0>>, 0),
           Event("stmt", <<"inner", 1>>, 0), Event("stmt", <<"inner", 2>>, 0),
           Event("stmt", <<"outer", 2>>, 0), Event("stmt", <<"main", 2>>, 0)>>
    ELSE <<Event("stmt", <<"main", 1>>, 0), Event("try", <<"outer", 0>>, 0),
           Event("stmt", <<"outer", 1>>, 0), Event("stmt", <<"outer", 2>>, 0),
           Event("stmt", <<"main", 2>>, 0)>>

\* The execution has reached TC_THROW or TC_RETHROW.
ReachedRaisePoint ==
    \E i \in DOMAIN trace : trace[i].ev \in {"throw", "rethrow", "abort", "terminate"}

IsPrefix(a, b) == Len(a) <= Len(b) /\ a = SubSeq(b, 1, Len(a))

\* C19: for a TC_TRY block whose body does not raise, the two expansions
\* behave alike: in either build the program does exactly its straight run,
\* the body once, no handler, then the statement after the last handler, and
\* it ends normally; in every program the two builds do the same up to the
\* first TC_THROW / TC_RETHROW an execution reaches.
C19_ModesAgreeWithoutRaise ==
    harness = "program" =>
        /\ ~ReachedRaisePoint =>
            /\ IsPrefix(trace, StraightRun)
            /\ status \in {"ready", "running", "done"}
            /\ calls = <<>>
            /\ delivered = <<>>
        /\ BodyDoesNotRaise =>
            /\ ~ReachedRaisePoint
            /\ status = "done" => trace = StraightRun
            /\ status = "running" => ENABLED NextTC
        /\ ReachedRaisePoint => ~BodyDoesNotRaise

\* a block with two logging helper clauses and a body that does not raise
\* has run to its end in a raising-capable build, as it does in the other
C19_Witness ==
    /\ RaisingBuild
    /\ prog = FlatProgram(<<>>, <<"TC_CATCH_STD_WARN_DO", "TC_CATCH_ALL_ERROR_DO">>)
    /\ status = "done"
    /\ trace = StraightRun

====
